---- MODULE Spec2Model ----
(***************************************************************************)
(* Model of the medallion pipeline of the repository: bronze ingestion,    *)
(* silver cleaning and validation (validate_transaction,                   *)
(* clean_and_validate) and gold aggregation (create_customer_summary,      *)
(* create_merchant_category_analysis, create_analytical_tables), the      *)
(* insights report (generate_insights) and the orchestrator run_pipeline.  *)
(*                                                                         *)
(* A cell of a DataFrame is a tagged value: a number, a string, a          *)
(* timezone-naive or timezone-aware timestamp, or one of the three missing *)
(* markers of pandas (NaN, NaT, None).  The wall clock is the integer      *)
(* `now`, in seconds since the epoch.                                      *)
(***************************************************************************)
EXTENDS Integers, Sequences, FiniteSets, TLC

VARIABLES
    now,                 \* wall clock read by datetime.now()
    raw,                 \* rows of the raw CSV file (text cells)
    bronze,              \* the bronze parquet file
    silver,              \* the silver parquet file
    validation_results,  \* clean_and_validate: the Series of (is_valid, issues)
    silver_ret,          \* outcome of the last clean_and_validate call
    gold_customer,       \* customer_summary.parquet
    gold_category,       \* merchant_category_analysis.parquet
    gold_df,             \* create_analytical_tables: the DataFrame read from silver
    gold_ret,            \* outcome of the last create_analytical_tables call
    vrow,                \* argument of the last direct validate_transaction call
    vnow,                \* what datetime.now() returned to that call
    vres,                \* its outcome
    unwritable,          \* output files the storage refuses to write
    report,              \* insights_report.txt
    insights_ret,        \* outcome of the last generate_insights call
    adf,                 \* argument of the last direct call of an aggregator
    ares,                \* the table it returned
    pc,                  \* run_pipeline: the statement it is at
    stages_begun,        \* run_pipeline: the stages it has called, in order
    stages_done,         \* run_pipeline: the stages that have returned to it
    run_ret,             \* run_pipeline: its return value
    first_silver,        \* input and output of the first completed clean_and_validate
    first_gold           \* input and output of the first completed create_analytical_tables

vars == <<now, raw, bronze, silver, validation_results, silver_ret,
          gold_customer, gold_category, gold_df, gold_ret, vrow, vnow, vres,
          unwritable, report, insights_ret, adf, ares,
          pc, stages_begun, stages_done, run_ret, first_silver, first_gold>>

pipeline_vars == <<raw, bronze, silver, validation_results, silver_ret,
                   gold_customer, gold_category, gold_df, gold_ret>>

\* what no call of the bronze, silver and gold stages touches
rest_vars == <<unwritable, report, insights_ret, adf, ares>>
\* the state of run_pipeline
run_vars == <<pc, stages_begun, stages_done, run_ret>>
\* the record of the first completed run of the silver and the gold stage
rerun_vars == <<first_silver, first_gold>>

(***************************************************************************)
(* Bounds.                                                                 *)
(***************************************************************************)
MaxRows == 2    \* rows of the raw CSV file
MaxNow == 1     \* last instant of the wall clock

(***************************************************************************)
(* Cell values.                                                            *)
(***************************************************************************)
Num(v) == [k |-> "num", v |-> v]
Str(s) == [k |-> "str", s |-> s]
Time(t) == [k |-> "time", t |-> t]
AwareTime(t) == [k |-> "aware", t |-> t]
NaN == [k |-> "nan"]
NaT == [k |-> "nat"]
None == [k |-> "none"]

isna(x) == x.k \in {"nan", "nat", "none"}
notna(x) == ~isna(x)

(***************************************************************************)
(* Text that denotes a number or a timestamp.  The tables list the         *)
(* literals used by the datasets of the model; any other text does not     *)
(* parse.                                                                  *)
(***************************************************************************)
NumberLiterals ==
    [s \in {"0", "1", "50", "-50", "100", "1111", "2222", "40", "-74", "41", "-75"} |->
        CASE s = "0" -> 0
          [] s = "1" -> 1
          [] s = "50" -> 50
          [] s = "-50" -> 0 - 50
          [] s = "100" -> 100
          [] s = "1111" -> 1111
          [] s = "2222" -> 2222
          [] s = "40" -> 40
          [] s = "-74" -> 0 - 74
          [] s = "41" -> 41
          [] s = "-75" -> 0 - 75]

DateLiterals ==
    [s \in {"1970-01-01 00:00:00", "1970-01-01 00:00:01"} |->
        CASE s = "1970-01-01 00:00:00" -> 0
          [] s = "1970-01-01 00:00:01" -> 1]

IsNumberText(s) == s \in DOMAIN NumberLiterals
IsDateText(s) == s \in DOMAIN DateLiterals

(***************************************************************************)
(* pd.to_datetime on a scalar: None is returned as it is, NaN and NaT give *)
(* NaT, a timestamp is kept, text is parsed and raises when it denotes no  *)
(* timestamp.                                                              *)
(***************************************************************************)
to_datetime(x) ==
    CASE x.k = "none" -> [raised |-> FALSE, value |-> None]
      [] x.k \in {"nan", "nat"} -> [raised |-> FALSE, value |-> NaT]
      [] x.k \in {"time", "aware"} -> [raised |-> FALSE, value |-> x]
      [] x.k = "str" ->
            IF IsDateText(x.s)
            THEN [raised |-> FALSE, value |-> Time(DateLiterals[x.s])]
            ELSE [raised |-> TRUE, value |-> None]
      [] x.k = "num" -> [raised |-> FALSE, value |-> Time(0)]

(***************************************************************************)
(* trans_date > datetime.now(): NaT compares False with everything; None   *)
(* and a timezone-aware timestamp cannot be ordered against the naive      *)
(* clock (TypeError).                                                      *)
(***************************************************************************)
GtNowRaises(d) == d.k \in {"none", "aware"}
GtNow_ge(d, clock) == d.k = "time" /\ d.t >= clock
GtNow(d, clock) == d.k = "time" /\ d.t > clock

(***************************************************************************)
(* validate_transaction, src/src/lambdas/silver/silver_layer.py 11-40.     *)
(***************************************************************************)
\* line 19: row['amt'] < 0 is evaluated when amt is not missing; ordering text
\* or a timestamp against 0 raises TypeError, which nothing catches.
AmountCheckRaises(row) == notna(row.amt) /\ row.amt.k # "num"

NegativeAmount(row) == notna(row.amt) /\ row.amt.k = "num" /\ row.amt.v < 0

\* the missing-field checks chained with elif: the first one found hides the rest
FieldIssues_elif(row) ==
    (IF NegativeAmount(row) THEN <<"negative_amount">> ELSE <<>>)
    \o (IF isna(row.amt) THEN <<"missing_amount">>
        ELSE IF isna(row.merchant) THEN <<"missing_merchant">>
        ELSE IF isna(row.category) THEN <<"missing_category">>
        ELSE <<>>)

\* lines 19-28
FieldIssues(row) ==
    (IF NegativeAmount(row) THEN <<"negative_amount">> ELSE <<>>)
    \o (IF isna(row.amt) THEN <<"missing_amount">> ELSE <<>>)
    \o (IF isna(row.merchant) THEN <<"missing_merchant">> ELSE <<>>)
    \o (IF isna(row.category) THEN <<"missing_category">> ELSE <<>>)

\* lines 31-36: the bare except turns every exception of the try block into
\* invalid_date
DateIssues(row, clock) ==
    LET d == to_datetime(row.trans_date_trans_time) IN
    IF d.raised \/ GtNowRaises(d.value) THEN <<"invalid_date">>
    ELSE IF GtNow(d.value, clock) THEN <<"future_date">>
    ELSE <<>>

\* an off-by-one in the emptiness test
IsValidOf_le1(issues) == Len(issues) <= 1
\* line 38
IsValidOf(issues) == Len(issues) = 0

Raised(exc) == [raised |-> TRUE, exc |-> exc, is_valid |-> FALSE, issues |-> <<>>]
Returned(ok, issues) == [raised |-> FALSE, exc |-> "", is_valid |-> ok, issues |-> issues]

validate_transaction(row, clock) ==
    IF AmountCheckRaises(row) THEN Raised("TypeError")
    ELSE LET issues == FieldIssues(row) \o DateIssues(row, clock)
         IN Returned(IsValidOf(issues), issues)

Range(seq) == {seq[i] : i \in DOMAIN seq}

NoRow == [amt |-> NaN, merchant |-> NaN, category |-> NaN, trans_date_trans_time |-> NaT]
NoCall == [raised |-> FALSE, exc |-> "none", is_valid |-> FALSE, issues |-> <<>>]
NoFile == [exists |-> FALSE, rows |-> <<>>]
NoRet == [status |-> "none"]

\* the wall clock advances
Tick ==
    /\ now < MaxNow
    /\ now' = now + 1
    /\ UNCHANGED <<pipeline_vars, vrow, vnow, vres, rest_vars, run_vars, rerun_vars>>

(***************************************************************************)
(* The raw CSV file.  A cell is text, "" when the cell is empty.  The rows *)
(* are one clean record and records that differ from it in the fields the  *)
(* silver and gold stages look at.                                         *)
(***************************************************************************)
Columns ==
    {"trans_num", "cc_num", "first", "last", "amt", "merchant", "category",
     "trans_date_trans_time", "dob", "lat", "long", "merch_lat", "merch_long",
     "is_fraud", "city", "state", "job"}

CleanRow ==
    [trans_num |-> "t1", cc_num |-> "1111", first |-> "A", last |-> "L",
     amt |-> "50", merchant |-> "m1", category |-> "c1",
     trans_date_trans_time |-> "1970-01-01 00:00:00",
     dob |-> "1970-01-01 00:00:00",
     lat |-> "40", long |-> "-74", merch_lat |-> "41", merch_long |-> "-75",
     is_fraud |-> "0", city |-> "NYC", state |-> "NY", job |-> "Engineer"]

RawRows ==
    {CleanRow,
     [CleanRow EXCEPT !.amt = "-50"],
     [CleanRow EXCEPT !.amt = "abc", !.lat = "abc"],
     [CleanRow EXCEPT !.amt = "", !.merchant = ""],
     [CleanRow EXCEPT !.trans_date_trans_time = "1970-01-01 00:00:01"],
     [CleanRow EXCEPT !.trans_date_trans_time = ""],
     [CleanRow EXCEPT !.trans_date_trans_time = "not a date"],
     [CleanRow EXCEPT !.dob = "not a date"],
     [CleanRow EXCEPT !.is_fraud = "1", !.merchant = "m2", !.amt = "100"],
     [CleanRow EXCEPT !.cc_num = "2222", !.category = "c2"],
     [CleanRow EXCEPT !.first = "B"],
     [CleanRow EXCEPT !.first = ""],
     [CleanRow EXCEPT !.trans_num = "", !.is_fraud = "1"]}

\* the transaction id of a row that has one is unique in the file
TransIds == <<"t1", "t2", "t3", "t4", "t5">>
WithTransIds(rows) ==
    [i \in DOMAIN rows |->
        IF rows[i].trans_num = "" THEN rows[i]
        ELSE [rows[i] EXCEPT !.trans_num = TransIds[i]]]

RawFiles ==
    UNION {{WithTransIds(rows) : rows \in [1..n -> RawRows]} : n \in 1..MaxRows}

(***************************************************************************)
(* ingest_raw_data, src/src/lambdas/bronze/bronze_layer.py 12-43.          *)
(***************************************************************************)
\* pd.read_csv: a column whose non-empty cells are all numbers is numeric,
\* any other column holds text; an empty cell is NaN.
ColumnIsNumeric(rows, c) ==
    \A i \in DOMAIN rows : rows[i][c] = "" \/ IsNumberText(rows[i][c])

read_csv(rows) ==
    [i \in DOMAIN rows |->
        [c \in Columns |->
            IF rows[i][c] = "" THEN NaN
            ELSE IF ColumnIsNumeric(rows, c) THEN Num(NumberLiterals[rows[i][c]])
            ELSE Str(rows[i][c])]]

\* lines 23-25
BronzeMetadata(clock) ==
    [c \in {"_ingestion_timestamp", "_source_file", "_source_system"} |->
        CASE c = "_ingestion_timestamp" -> Time(clock)
          [] c = "_source_file" -> Str("credit_card_transactions.csv")
          [] c = "_source_system" -> Str("credit_card_system")]

ingest_raw_data(rows, clock) ==
    LET df == read_csv(rows)
    IN [i \in DOMAIN df |-> df[i] @@ BronzeMetadata(clock)]

(***************************************************************************)
(* clean_and_validate, src/src/lambdas/silver/silver_layer.py 43-87.       *)
(***************************************************************************)
\* lines 54-55: pd.to_datetime on a column, errors='raise' by default
ColumnToDatetimeRaises(df, c) ==
    \E i \in DOMAIN df : to_datetime(df[i][c]).raised

\* lines 56-60: pd.to_numeric(..., errors='coerce')
to_numeric_coerce(x) ==
    CASE x.k = "num" -> x
      [] x.k = "str" -> IF IsNumberText(x.s) THEN Num(NumberLiterals[x.s]) ELSE NaN
      [] OTHER -> NaN

NumericColumns == {"amt", "lat", "long", "merch_lat", "merch_long"}
DateColumns == {"trans_date_trans_time", "dob"}

\* lines 54-60
ConvertTypes(df) ==
    [i \in DOMAIN df |->
        [c \in DOMAIN df[i] |->
            IF c \in DateColumns THEN to_datetime(df[i][c]).value
            ELSE IF c \in NumericColumns THEN to_numeric_coerce(df[i][c])
            ELSE df[i][c]]]

RECURSIVE JoinComma(_)
\* ','.join(issues)
JoinComma(issues) ==
    IF Len(issues) = 0 THEN ""
    ELSE IF Len(issues) = 1 THEN issues[1]
    ELSE issues[1] \o "," \o JoinComma(Tail(issues))

\* line 65
QualityIssues(issues) == IF issues # <<>> THEN Str(JoinComma(issues)) ELSE None

Bool(b) == [k |-> "bool", b |-> b]

\* lines 62-68
SilverColumns(res, clock) ==
    [c \in {"is_valid", "quality_issues", "_silver_processed_at"} |->
        CASE c = "is_valid" -> Bool(res.is_valid)
          [] c = "quality_issues" -> QualityIssues(res.issues)
          [] c = "_silver_processed_at" -> Time(clock)]

RECURSIVE SumSeq(_)
\* Series.sum() of a numeric column without missing cells
SumSeq(xs) == IF xs = <<>> THEN 0 ELSE Head(xs) + SumSeq(Tail(xs))

RECURSIVE CountTrue(_)
\* Series.sum() of a boolean column
CountTrue(flags) ==
    IF flags = <<>> THEN 0
    ELSE (IF Head(flags) THEN 1 ELSE 0) + CountTrue(Tail(flags))

\* ~ taken on integers instead of booleans: ~1 = -2, ~0 = -1
InvalidCount_int(df) ==
    SumSeq([i \in DOMAIN df |-> IF df[i].is_valid.b THEN 0 - 2 ELSE 0 - 1])
\* line 77
ValidCount(df) == CountTrue([i \in DOMAIN df |-> df[i].is_valid.b])
\* line 82
InvalidCount(df) == CountTrue([i \in DOMAIN df |-> ~df[i].is_valid.b])

\* the files of the stages (run_pipeline.py 30-33, gold_layer.py 125-126)
SilverFile == "transactions_clean.parquet"
CustomerFile == "customer_summary.parquet"
CategoryFile == "merchant_category_analysis.parquet"

\* clean_and_validate left by an exception: every raise is ahead of or in
\* the one write of line 74
SilverRaised(exc) == [status |-> "raised", exc |-> exc, written |-> {}]

\* lines 76-85
SilverStats(df, clock) ==
    [total_rows |-> Len(df),
     valid_rows |-> ValidCount(df),
     invalid_rows |-> InvalidCount(df),
     processed_at |-> clock,
     output_file |-> SilverFile]

\* the wall clock is read once per row (line 33) and twice more (68, 83); the
\* call is taken to last less than one tick of the clock
CleanAndValidate ==
    IF ~bronze.exists
    THEN /\ silver_ret' = SilverRaised("FileNotFoundError")
         /\ UNCHANGED <<now, raw, bronze, silver, validation_results,
                        gold_customer, gold_category, gold_df, gold_ret,
                        vrow, vnow, vres, rest_vars>>
    ELSE IF \E c \in DateColumns : ColumnToDatetimeRaises(bronze.rows, c)
    THEN /\ silver_ret' = SilverRaised("ValueError")
         /\ UNCHANGED <<now, raw, bronze, silver, validation_results,
                        gold_customer, gold_category, gold_df, gold_ret,
                        vrow, vnow, vres, rest_vars>>
    ELSE LET df == ConvertTypes(bronze.rows)
             results == [i \in DOMAIN df |-> validate_transaction(df[i], now)]
             out == [i \in DOMAIN df |-> df[i] @@ SilverColumns(results[i], now)]
         IN IF \E i \in DOMAIN results : results[i].raised
            THEN \* line 63: an exception of validate_transaction leaves df.apply
                 /\ silver_ret' = SilverRaised("TypeError")
                 /\ UNCHANGED <<now, raw, bronze, silver, validation_results,
                                gold_customer, gold_category, gold_df, gold_ret,
                                vrow, vnow, vres, rest_vars>>
            ELSE IF SilverFile \in unwritable
            THEN \* line 74: to_parquet cannot open the file
                 /\ validation_results' = results
                 /\ silver_ret' = SilverRaised("OSError")
                 /\ UNCHANGED <<now, raw, bronze, silver,
                                gold_customer, gold_category, gold_df, gold_ret,
                                vrow, vnow, vres, rest_vars>>
            ELSE /\ validation_results' = results
                 /\ silver' = [exists |-> TRUE, rows |-> out]
                 /\ silver_ret' = [status |-> "returned", written |-> {SilverFile},
                                   metadata |-> SilverStats(out, now)]
                 /\ UNCHANGED <<now, raw, bronze, gold_customer, gold_category,
                                gold_df, gold_ret, vrow, vnow, vres, rest_vars>>

(***************************************************************************)
(* Arithmetic of the aggregations.  A rounded decimal is kept in           *)
(* hundredths: Dec2(7500) is 75.00.                                        *)
(***************************************************************************)
Dec2(h) == [k |-> "dec2", v |-> h]
Inf == [k |-> "inf"]

\* round(num / den, 2) in hundredths, den > 0, ties to the even neighbour
Round2(num, den) ==
    LET n == num * 100
        q == n \div den
        r == n % den
    IN IF 2 * r < den THEN q
       ELSE IF 2 * r > den THEN q + 1
       ELSE IF q % 2 = 0 THEN q ELSE q + 1

RECURSIVE InsertSorted(_, _)
InsertSorted(x, xs) ==
    IF xs = <<>> THEN <<x>>
    ELSE IF x <= Head(xs) THEN <<x>> \o xs
    ELSE <<Head(xs)>> \o InsertSorted(x, Tail(xs))

RECURSIVE SortInts(_)
SortInts(xs) == IF xs = <<>> THEN <<>> ELSE InsertSorted(Head(xs), SortInts(Tail(xs)))

\* the non-missing numbers of a column of a group, in row order
Numbers(rows, c) ==
    LET present == SelectSeq(rows, LAMBDA r : notna(r[c]))
    IN [i \in DOMAIN present |-> present[i][c].v]

\* 'count': the number of non-missing cells
AggCount(rows, c) == Len(SelectSeq(rows, LAMBDA r : notna(r[c])))
\* 'sum', missing cells skipped
AggSum(rows, c) == SumSeq(Numbers(rows, c))
\* 'mean' rounded to 2 decimals; NaN when every cell is missing
AggMean2(rows, c) ==
    LET xs == Numbers(rows, c)
    IN IF xs = <<>> THEN NaN ELSE Dec2(Round2(SumSeq(xs), Len(xs)))
\* 'median' rounded to 2 decimals
AggMedian2(rows, c) ==
    LET xs == SortInts(Numbers(rows, c))
        n == Len(xs)
    IN IF n = 0 THEN NaN
       ELSE IF n % 2 = 1 THEN Dec2(Round2(xs[(n + 1) \div 2], 1))
       ELSE Dec2(Round2(xs[n \div 2] + xs[n \div 2 + 1], 2))
\* 'nunique': the number of distinct non-missing values
AggNunique(rows, c) ==
    Cardinality({rows[i][c] : i \in {j \in DOMAIN rows : notna(rows[j][c])}})
\* 'first': the first non-missing value
AggFirst(rows, c) ==
    LET present == SelectSeq(rows, LAMBDA r : notna(r[c]))
    IN IF present = <<>> THEN NaN ELSE present[1][c]
\* 'min' / 'max' of a timestamp column
AggMinTime(rows, c) ==
    LET ts == {rows[i][c].t : i \in {j \in DOMAIN rows : notna(rows[j][c])}}
    IN IF ts = {} THEN NaT ELSE Time(CHOOSE t \in ts : \A u \in ts : t <= u)
AggMaxTime(rows, c) ==
    LET ts == {rows[i][c].t : i \in {j \in DOMAIN rows : notna(rows[j][c])}}
    IN IF ts = {} THEN NaT ELSE Time(CHOOSE t \in ts : \A u \in ts : t >= u)

\* fraud_count / total_transactions * 100, rounded to 2 decimals: float
\* division, so a zero divisor gives inf (or NaN for 0 / 0)
FraudRate(fraud_count, total) ==
    IF total = 0 THEN (IF fraud_count = 0 THEN NaN ELSE Inf)
    ELSE Dec2(Round2(fraud_count * 100, total))

SecondsPerDay == 86400
\* (last - first).dt.days
LifetimeDays(first_ts, last_ts) ==
    IF isna(first_ts) \/ isna(last_ts) THEN NaN
    ELSE Num((last_ts.t - first_ts.t) \div SecondsPerDay)

(***************************************************************************)
(* Order of group keys.  groupby sorts its keys; text is ordered by its    *)
(* place in the alphabetical list of the texts the datasets hold.          *)
(***************************************************************************)
TextOrder == <<"A L", "B L", "c1", "c2">>
TextRank(s) == CHOOSE i \in DOMAIN TextOrder : TextOrder[i] = s

RECURSIVE SortKeys(_, _)
\* the keys of S in ascending order of rank
SortKeys(S, rank) ==
    IF S = {} THEN <<>>
    ELSE LET m == CHOOSE x \in S : \A y \in S : rank[x] <= rank[y]
         IN <<m>> \o SortKeys(S \ {m}, rank)

(***************************************************************************)
(* create_customer_summary, src/src/lambdas/gold/gold_layer.py 11-59.      *)
(* A DataFrame is its rows and the set of its columns of dtype object      *)
(* (the columns that hold text).                                           *)
(***************************************************************************)
TextColumns(rows) ==
    {c \in Columns : \E i \in DOMAIN rows : rows[i][c].k = "str"}

\* line 20: df['first'] + ' ' + df['last'] raises TypeError when a name column
\* is not of dtype object (a column read from cells that were all empty is
\* float64)
FullNameRaises(text_columns) == ~({"first", "last"} \subseteq text_columns)

\* line 20, one row: a missing part makes the whole name missing
FullName(r) ==
    IF isna(r.first) \/ isna(r.last) THEN NaN
    ELSE Str(r.first.s \o " " \o r.last.s)

\* lines 19-20
WithCustomerKey(df) ==
    [i \in DOMAIN df |->
        df[i] @@ [c \in {"customer_id", "full_name"} |->
                    IF c = "customer_id" THEN df[i].cc_num ELSE FullName(df[i])]]

\* line 23: groupby drops the rows with a missing key (dropna=True)
CustomerKeys(df) ==
    {<<df[i].customer_id, df[i].full_name>> :
        i \in {j \in DOMAIN df : notna(df[j].customer_id) /\ notna(df[j].full_name)}}

CustomerKeyRank(keys) ==
    [key \in keys |-> key[1].v * (Len(TextOrder) + 1) + TextRank(key[2].s)]

\* lines 23-55, one group
CustomerRow(key, group) ==
    LET total == AggCount(group, "trans_num")
        fraud == AggSum(group, "is_fraud")
        first_ts == AggMinTime(group, "trans_date_trans_time")
        last_ts == AggMaxTime(group, "trans_date_trans_time")
    IN [customer_id |-> key[1],
        full_name |-> key[2],
        total_transactions |-> total,
        total_spend |-> Dec2(Round2(AggSum(group, "amt"), 1)),
        avg_transaction |-> AggMean2(group, "amt"),
        median_transaction |-> AggMedian2(group, "amt"),
        fraud_count |-> fraud,
        first_transaction_date |-> first_ts,
        last_transaction_date |-> last_ts,
        unique_merchants |-> AggNunique(group, "merchant"),
        city |-> AggFirst(group, "city"),
        state |-> AggFirst(group, "state"),
        job |-> AggFirst(group, "job"),
        fraud_rate |-> FraudRate(fraud, total),
        customer_lifetime_days |-> LifetimeDays(first_ts, last_ts)]

create_customer_summary(rows) ==
    LET df == WithCustomerKey(rows)
        keys == CustomerKeys(df)
        order == SortKeys(keys, CustomerKeyRank(keys))
    IN [g \in DOMAIN order |->
            CustomerRow(order[g],
                SelectSeq(df, LAMBDA r :
                    <<r.customer_id, r.full_name>> = order[g]))]

(***************************************************************************)
(* create_merchant_category_analysis, gold_layer.py 62-99.                 *)
(***************************************************************************)
CategoryKeys(df) ==
    {df[i].category : i \in {j \in DOMAIN df : notna(df[j].category)}}

CategoryKeyRank(keys) == [key \in keys |-> TextRank(key.s)]

\* lines 70-92, one group
CategoryRow(key, group) ==
    LET total == AggCount(group, "trans_num")
        fraud == AggSum(group, "is_fraud")
    IN [category |-> key,
        total_transactions |-> total,
        total_amount |-> Dec2(Round2(AggSum(group, "amt"), 1)),
        avg_amount |-> AggMean2(group, "amt"),
        median_amount |-> AggMedian2(group, "amt"),
        fraud_count |-> fraud,
        unique_customers |-> AggNunique(group, "cc_num"),
        unique_merchants |-> AggNunique(group, "merchant"),
        fraud_rate |-> FraudRate(fraud, total)]

RECURSIVE InsertByVolume(_, _)
\* a row goes behind every row whose total_transactions is not smaller
InsertByVolume(x, xs) ==
    IF xs = <<>> THEN <<x>>
    ELSE IF Head(xs).total_transactions >= x.total_transactions
         THEN <<Head(xs)>> \o InsertByVolume(x, Tail(xs))
         ELSE <<x>> \o xs

\* the sort of line 95 left out: the rows stay in the order of groupby
SortByVolume_none(xs) == xs

RECURSIVE SortByVolume(_)
\* line 95: sort_values('total_transactions', ascending=False); on the few
\* rows of a category table the sort keeps tied rows in their order
SortByVolume(xs) ==
    IF xs = <<>> THEN <<>>
    ELSE InsertByVolume(xs[Len(xs)], SortByVolume(SubSeq(xs, 1, Len(xs) - 1)))

create_merchant_category_analysis(df) ==
    LET keys == CategoryKeys(df)
        order == SortKeys(keys, CategoryKeyRank(keys))
        grouped == [g \in DOMAIN order |->
                        CategoryRow(order[g],
                            SelectSeq(df, LAMBDA r : r.category = order[g]))]
    IN SortByVolume(grouped)

(***************************************************************************)
(* create_analytical_tables, gold_layer.py 102-147.                        *)
(***************************************************************************)
\* the filter left out: every silver record is aggregated
FilterValid_all(df) == df
\* line 113: df[df['is_valid'] == True]
FilterValid(df) == SelectSeq(df, LAMBDA r : r.is_valid = Bool(TRUE))

\* an explicit error for an empty valid subset added to the stage
GoldRaises_empty(df) ==
    FullNameRaises(TextColumns(df)) \/ FilterValid(df) = <<>>
\* the exceptions of lines 118-119
GoldRaises(df) == FullNameRaises(TextColumns(df))

\* lines 131-141
GoldStats(df, df_valid, customer_summary, category_analysis, clock) ==
    [source_rows |-> Len(df),
     valid_rows_used |-> Len(df_valid),
     customers |-> Len(customer_summary),
     categories |-> Len(category_analysis),
     created_at |-> clock,
     tables |-> [customer_summary |-> CustomerFile,
                 merchant_category_analysis |-> CategoryFile]]

\* create_analytical_tables left by an exception after it wrote the files
\* `written`
GoldRaised(exc, written) == [status |-> "raised", exc |-> exc, written |-> written]

CreateAnalyticalTables ==
    IF ~silver.exists
    THEN /\ gold_ret' = GoldRaised("FileNotFoundError", {})
         /\ gold_df' = <<>>
         /\ UNCHANGED <<now, raw, bronze, silver, validation_results, silver_ret,
                        gold_customer, gold_category, vrow, vnow, vres, rest_vars>>
    ELSE IF GoldRaises(silver.rows)
    THEN /\ gold_ret' = GoldRaised("TypeError", {})
         /\ gold_df' = silver.rows
         /\ UNCHANGED <<now, raw, bronze, silver, validation_results, silver_ret,
                        gold_customer, gold_category, vrow, vnow, vres, rest_vars>>
    ELSE LET df == silver.rows
             df_valid == FilterValid(df)
             customer_summary == create_customer_summary(df_valid)
             category_analysis == create_merchant_category_analysis(df_valid)
         IN IF CustomerFile \in unwritable
            THEN \* line 128 raises
                 /\ gold_df' = df
                 /\ gold_ret' = GoldRaised("OSError", {})
                 /\ UNCHANGED <<now, raw, bronze, silver, validation_results,
                                silver_ret, gold_customer, gold_category,
                                vrow, vnow, vres, rest_vars>>
            ELSE IF CategoryFile \in unwritable
            THEN \* line 128 has written, line 129 raises
                 /\ gold_df' = df
                 /\ gold_customer' = [exists |-> TRUE, rows |-> customer_summary]
                 /\ gold_ret' = GoldRaised("OSError", {CustomerFile})
                 /\ UNCHANGED <<now, raw, bronze, silver, validation_results,
                                silver_ret, gold_category, vrow, vnow, vres, rest_vars>>
            ELSE /\ gold_df' = df
                 /\ gold_customer' = [exists |-> TRUE, rows |-> customer_summary]
                 /\ gold_category' = [exists |-> TRUE, rows |-> category_analysis]
                 /\ gold_ret' = [status |-> "returned",
                                 written |-> {CustomerFile, CategoryFile},
                                 metadata |-> GoldStats(df, df_valid, customer_summary,
                                                        category_analysis, now)]
                 /\ UNCHANGED <<now, raw, bronze, silver, validation_results,
                                silver_ret, vrow, vnow, vres, rest_vars>>

\* the run of the bronze stage on the raw file; the file is ingested once
IngestRawData ==
    /\ ~bronze.exists
    /\ bronze' = [exists |-> TRUE, rows |-> ingest_raw_data(raw, now)]
    /\ UNCHANGED <<now, raw, silver, validation_results, silver_ret,
                   gold_customer, gold_category, gold_df, gold_ret, vrow, vnow, vres, rest_vars>>

(***************************************************************************)
(* generate_insights, src/src/insights.py 11-75.                           *)
(***************************************************************************)
ReportFile == "insights_report.txt"
TopCategories == 5

\* the order of fraud_rate values: inf is above every number
RateAbove(x, y) ==
    CASE x.k = "inf" -> y.k # "inf"
      [] x.k = "dec2" -> y.k = "dec2" /\ x.v > y.v
      [] OTHER -> FALSE

RECURSIVE InsertByFraudRate(_, _)
\* a row goes behind every row whose fraud_rate is not smaller
InsertByFraudRate(x, xs) ==
    IF xs = <<>> THEN <<x>>
    ELSE IF RateAbove(x.fraud_rate, Head(xs).fraud_rate)
         THEN <<x>> \o xs
         ELSE <<Head(xs)>> \o InsertByFraudRate(x, Tail(xs))

RECURSIVE SortByFraudRate(_)
SortByFraudRate(xs) ==
    IF xs = <<>> THEN <<>>
    ELSE InsertByFraudRate(xs[Len(xs)], SortByFraudRate(SubSeq(xs, 1, Len(xs) - 1)))

\* lines 24-26: nlargest(5, 'fraud_rate') of four columns; the rows whose
\* fraud_rate is NaN come last
high_fraud(category_analysis) ==
    LET rated == SelectSeq(category_analysis, LAMBDA r : r.fraud_rate.k # "nan")
        unrated == SelectSeq(category_analysis, LAMBDA r : r.fraud_rate.k = "nan")
        ordered == SortByFraudRate(rated) \o unrated
        top == SubSeq(ordered, 1, IF Len(ordered) < TopCategories
                                  THEN Len(ordered) ELSE TopCategories)
    IN [i \in DOMAIN top |->
            [category |-> top[i].category,
             fraud_rate |-> top[i].fraud_rate,
             fraud_count |-> top[i].fraud_count,
             total_transactions |-> top[i].total_transactions]]

\* line 42: total_fraud / total_transactions * 100 on numpy integers, kept
\* as the fraction it is; a zero divisor gives inf or NaN
overall_fraud_rate(total_fraud, total_transactions) ==
    IF total_transactions = 0 THEN (IF total_fraud = 0 THEN NaN ELSE Inf)
    ELSE [k |-> "ratio", num |-> total_fraud * 100, den |-> total_transactions]

\* lines 38-41
InsightTotals(customer_summary, category_analysis) ==
    [total_customers |-> Len(customer_summary),
     total_categories |-> Len(category_analysis),
     total_transactions |->
        SumSeq([g \in DOMAIN category_analysis |->
                    category_analysis[g].total_transactions]),
     total_fraud |->
        SumSeq([g \in DOMAIN category_analysis |-> category_analysis[g].fraud_count])]

GenerateInsights ==
    IF ~gold_customer.exists \/ ~gold_category.exists
    THEN \* lines 17-18: read_parquet of a missing file
         /\ insights_ret' = [status |-> "raised", exc |-> "FileNotFoundError"]
         /\ UNCHANGED <<now, pipeline_vars, vrow, vnow, vres, unwritable, report,
                        adf, ares>>
    ELSE LET totals == InsightTotals(gold_customer.rows, gold_category.rows)
         IN /\ report' =
                  [exists |-> TRUE,
                   generated |-> now,
                   high_fraud |-> high_fraud(gold_category.rows),
                   total_customers |-> totals.total_customers,
                   total_transactions |-> totals.total_transactions,
                   \* line 66: the rate printed with two decimals
                   fraud_rate |-> FraudRate(totals.total_fraud,
                                            totals.total_transactions)]
            /\ insights_ret' =
                  [status |-> "returned",
                   total_customers |-> totals.total_customers,
                   total_transactions |-> totals.total_transactions,
                   fraud_rate |-> overall_fraud_rate(totals.total_fraud,
                                                     totals.total_transactions),
                   report_path |-> ReportFile]
            /\ UNCHANGED <<now, pipeline_vars, vrow, vnow, vres, unwritable,
                           adf, ares>>

NoReport == [exists |-> FALSE]
NoRun == [done |-> FALSE]

\* generate_insights, the aggregators and run_pipeline have not been called
InitNotCalled ==
    /\ report = NoReport
    /\ insights_ret = NoRet
    /\ adf = <<>>
    /\ ares = NoRet
    /\ pc = "none"
    /\ stages_begun = <<>>
    /\ stages_done = <<>>
    /\ run_ret = "none"
    /\ first_silver = NoRun
    /\ first_gold = NoRun

Init ==
    /\ now = 0
    /\ raw \in RawFiles
    /\ bronze = NoFile
    /\ silver = NoFile
    /\ validation_results = <<>>
    /\ silver_ret = NoRet
    /\ gold_customer = NoFile
    /\ gold_category = NoFile
    /\ gold_df = <<>>
    /\ gold_ret = NoRet
    /\ vrow = NoRow
    /\ vnow = 0
    /\ vres = NoCall
    /\ unwritable = {}
    /\ InitNotCalled

\* the stages called on their own, in any order
Next ==
    \/ Tick
    \/ IngestRawData /\ UNCHANGED <<run_vars, rerun_vars>>
    \/ CleanAndValidate /\ UNCHANGED <<run_vars, rerun_vars>>
    \/ CreateAnalyticalTables /\ UNCHANGED <<run_vars, rerun_vars>>

Spec == Init /\ [][Next]_vars

(***************************************************************************)
(* run_pipeline, src/run_pipeline.py 19-77.  A stage call is one step; the *)
(* storage may refuse the file of the silver stage or one of the two files *)
(* of the gold stage.                                                      *)
(***************************************************************************)
StageOrder == <<"bronze", "silver", "gold", "insights">>

StorageFaults == {{}, {SilverFile}, {CustomerFile}, {CategoryFile}}

\* the statement that follows the call of a stage in the try block
NextOf(stage) ==
    CASE stage = "bronze" -> "silver"
      [] stage = "silver" -> "gold"
      [] stage = "gold" -> "insights"
      [] stage = "insights" -> "summary"

\* every stage runs whatever the outcome of the stage ahead of it
AfterStage_continue(stage, status) == NextOf(stage)
\* lines 35 and 73: an exception of a stage leaves the try block
AfterStage(stage, status) ==
    IF status = "returned" THEN NextOf(stage) ELSE "except"

\* the bookkeeping of run_pipeline around the call of `stage`
StageCalled(stage, status) ==
    /\ pc = stage
    /\ stages_begun' = Append(stages_begun, stage)
    /\ stages_done' = IF status = "returned" THEN Append(stages_done, stage)
                      ELSE stages_done
    /\ pc' = AfterStage(stage, status)
    /\ UNCHANGED <<run_ret, rerun_vars>>

\* lines 23-35
StartRun ==
    /\ pc = "none"
    /\ pc' = "bronze"
    /\ UNCHANGED <<now, pipeline_vars, vrow, vnow, vres, rest_vars,
                   stages_begun, stages_done, run_ret, rerun_vars>>

\* line 40
RunBronze == IngestRawData /\ StageCalled("bronze", "returned")
\* line 46
RunSilver == CleanAndValidate /\ StageCalled("silver", silver_ret'.status)
\* line 52
RunGold == CreateAnalyticalTables /\ StageCalled("gold", gold_ret'.status)
\* line 58
RunInsights == GenerateInsights /\ StageCalled("insights", insights_ret'.status)

\* lines 60-71
ReturnTrue ==
    /\ pc = "summary"
    /\ run_ret' = "True"
    /\ pc' = "done"
    /\ UNCHANGED <<now, pipeline_vars, vrow, vnow, vres, rest_vars,
                   stages_begun, stages_done, rerun_vars>>

\* lines 73-77
ReturnFalse ==
    /\ pc = "except"
    /\ run_ret' = "False"
    /\ pc' = "done"
    /\ UNCHANGED <<now, pipeline_vars, vrow, vnow, vres, rest_vars,
                   stages_begun, stages_done, rerun_vars>>

InitPipeline ==
    /\ now = 0
    /\ raw \in RawFiles
    /\ bronze = NoFile
    /\ silver = NoFile
    /\ validation_results = <<>>
    /\ silver_ret = NoRet
    /\ gold_customer = NoFile
    /\ gold_category = NoFile
    /\ gold_df = <<>>
    /\ gold_ret = NoRet
    /\ vrow = NoRow
    /\ vnow = 0
    /\ vres = NoCall
    /\ unwritable \in StorageFaults
    /\ InitNotCalled

NextPipeline ==
    \/ Tick
    \/ StartRun
    \/ RunBronze
    \/ RunSilver
    \/ RunGold
    \/ RunInsights
    \/ ReturnTrue
    \/ ReturnFalse

SpecPipeline == InitPipeline /\ [][NextPipeline]_vars

(***************************************************************************)
(* The stages called again and again on the files of one ingestion; the    *)
(* input and the output of the first completed call of the silver and of   *)
(* the gold stage are kept for comparison with the later calls.            *)
(***************************************************************************)
RerunSilver ==
    /\ CleanAndValidate
    /\ first_silver' =
          IF ~first_silver.done /\ silver_ret'.status = "returned"
          THEN [done |-> TRUE, input |-> bronze.rows, output |-> silver'.rows]
          ELSE first_silver
    /\ UNCHANGED <<run_vars, first_gold>>

RerunGold ==
    /\ CreateAnalyticalTables
    /\ first_gold' =
          IF ~first_gold.done /\ gold_ret'.status = "returned"
          THEN [done |-> TRUE, input |-> silver.rows,
                customer_summary |-> gold_customer'.rows,
                category_analysis |-> gold_category'.rows]
          ELSE first_gold
    /\ UNCHANGED <<run_vars, first_silver>>

NextRerun ==
    \/ Tick
    \/ IngestRawData /\ UNCHANGED <<run_vars, rerun_vars>>
    \/ RerunSilver
    \/ RerunGold

SpecRerun == Init /\ [][NextRerun]_vars

(***************************************************************************)
(* Rows handed directly to validate_transaction (a pd.Series with the four *)
(* fields it reads).                                                       *)
(***************************************************************************)
DirectAmounts == {Num(0 - 50), Num(0), Num(50), NaN, None, Str("abc")}
DirectMerchants == {Str("m1"), None, NaN}
DirectCategories == {Str("c1"), None}
DirectTimestamps ==
    {Time(0), Time(1), AwareTime(1), NaT, None,
     Str("1970-01-01 00:00:00"), Str("1970-01-01 00:00:01"), Str("not a date")}

DirectRows ==
    [amt : DirectAmounts, merchant : DirectMerchants,
     category : DirectCategories, trans_date_trans_time : DirectTimestamps]



InitValidate ==
    /\ now = 0
    /\ raw = <<>>
    /\ bronze = NoFile
    /\ silver = NoFile
    /\ validation_results = <<>>
    /\ silver_ret = NoRet
    /\ gold_customer = NoFile
    /\ gold_category = NoFile
    /\ gold_df = <<>>
    /\ gold_ret = NoRet
    /\ vrow = NoRow
    /\ vnow = 0
    /\ vres = NoCall
    /\ unwritable = {}
    /\ InitNotCalled

\* a direct call validate_transaction(row)
ValidateTransaction ==
    \E row \in DirectRows :
        /\ vrow' = row
        /\ vnow' = now
        /\ vres' = validate_transaction(row, now)
        /\ UNCHANGED <<now, pipeline_vars, rest_vars, run_vars, rerun_vars>>

NextValidate == Tick \/ ValidateTransaction

SpecValidate == InitValidate /\ [][NextValidate]_vars

(***************************************************************************)
(* DataFrames handed directly to the aggregators, as the unit tests do.    *)
(* A record is the clean record after type conversion, or differs from it  *)
(* in the fields the aggregators group and count by.                       *)
(***************************************************************************)
MaxDirectRows == 3

SampleRecord == ConvertTypes(read_csv(<<CleanRow>>))[1]

DirectRecords ==
    {SampleRecord,
     [SampleRecord EXCEPT !.category = Str("c2")],
     [SampleRecord EXCEPT !.category = Str("c2"), !.cc_num = Num(2222),
                          !.is_fraud = Num(1)],
     [SampleRecord EXCEPT !.amt = Num(100), !.merchant = Str("m2"),
                          !.is_fraud = Num(1)],
     [SampleRecord EXCEPT !.first = Str("B")],
     [SampleRecord EXCEPT !.first = NaN],
     [SampleRecord EXCEPT !.trans_num = NaN]}

\* the transaction id of a record that has one is unique in the DataFrame
WithDirectIds(rows) ==
    [i \in DOMAIN rows |->
        IF isna(rows[i].trans_num) THEN rows[i]
        ELSE [rows[i] EXCEPT !.trans_num = Str(TransIds[i])]]

DirectFrames ==
    UNION {{WithDirectIds(rows) : rows \in [1..n -> DirectRecords]} :
              n \in 1..MaxDirectRows}

InitAggregate ==
    /\ now = 0
    /\ raw = <<>>
    /\ bronze = NoFile
    /\ silver = NoFile
    /\ validation_results = <<>>
    /\ silver_ret = NoRet
    /\ gold_customer = NoFile
    /\ gold_category = NoFile
    /\ gold_df = <<>>
    /\ gold_ret = NoRet
    /\ vrow = NoRow
    /\ vnow = 0
    /\ vres = NoCall
    /\ unwritable = {}
    /\ report = NoReport
    /\ insights_ret = NoRet
    /\ adf \in DirectFrames
    /\ ares = NoRet
    /\ pc = "none"
    /\ stages_begun = <<>>
    /\ stages_done = <<>>
    /\ run_ret = "none"
    /\ first_silver = NoRun
    /\ first_gold = NoRun

\* a direct call create_customer_summary(adf); lines 19-20 add their columns
\* to the DataFrame of the caller
CallCustomerSummary ==
    /\ IF FullNameRaises(TextColumns(adf))
       THEN /\ adf' = [i \in DOMAIN adf |->
                          adf[i] @@ [c \in {"customer_id"} |-> adf[i].cc_num]]
            /\ ares' = [status |-> "raised", fn |-> "create_customer_summary",
                        exc |-> "TypeError"]
       ELSE /\ adf' = WithCustomerKey(adf)
            /\ ares' = [status |-> "returned", fn |-> "create_customer_summary",
                        rows |-> create_customer_summary(adf)]
    /\ UNCHANGED <<now, pipeline_vars, vrow, vnow, vres, unwritable, report,
                   insights_ret, run_vars, rerun_vars>>

\* a direct call create_merchant_category_analysis(adf)
CallCategoryAnalysis ==
    /\ ares' = [status |-> "returned", fn |-> "create_merchant_category_analysis",
                rows |-> create_merchant_category_analysis(adf)]
    /\ UNCHANGED <<now, pipeline_vars, vrow, vnow, vres, unwritable, report,
                   insights_ret, adf, run_vars, rerun_vars>>

NextAggregate == CallCustomerSummary \/ CallCategoryAnalysis

SpecAggregate == InitAggregate /\ [][NextAggregate]_vars

(***************************************************************************)
(* Properties of the silver stage.                                         *)
(***************************************************************************)
SilverReturned == silver_ret.status = "returned"

\* C1: whenever clean_and_validate completes, its stats satisfy
\* valid_rows + invalid_rows = total_rows, and total_rows is the number of
\* records of the bronze input.
C1_StatsAddUp ==
    SilverReturned =>
        /\ silver_ret.metadata.valid_rows + silver_ret.metadata.invalid_rows
              = silver_ret.metadata.total_rows
        /\ silver_ret.metadata.total_rows = Len(bronze.rows)

C1_Witness ==
    /\ SilverReturned
    /\ silver_ret.metadata.valid_rows >= 1
    /\ silver_ret.metadata.invalid_rows >= 1

\* C3: the is_valid flag returned by validate_transaction is true exactly when
\* the returned issues list is empty, and a record of the silver output has
\* is_valid = true exactly when its quality_issues is absent.
C3_ValidIffNoIssues ==
    /\ \A i \in DOMAIN validation_results :
          ~validation_results[i].raised =>
              (validation_results[i].is_valid <=> validation_results[i].issues = <<>>)
    /\ silver.exists =>
          \A i \in DOMAIN silver.rows :
              silver.rows[i].is_valid = Bool(TRUE)
                  <=> silver.rows[i].quality_issues = None

C3_Witness ==
    /\ silver.exists
    /\ \E i \in DOMAIN silver.rows :
          silver.rows[i].is_valid = Bool(TRUE) /\ silver.rows[i].quality_issues = None
    /\ \E i \in DOMAIN silver.rows :
          /\ silver.rows[i].is_valid = Bool(FALSE)
          /\ silver.rows[i].quality_issues = Str("missing_amount,missing_merchant")

\* a bronze cell of a numeric or date column that holds text denoting no
\* number, no timestamp
Unparseable(x, c) ==
    /\ x.k = "str"
    /\ IF c \in DateColumns THEN ~IsDateText(x.s) ELSE ~IsNumberText(x.s)

\* C6: an amount, coordinate, transaction timestamp or date of birth that
\* cannot be parsed never makes clean_and_validate raise: the field becomes
\* absent in that record, the record is kept, and all records are written.
C6_UnparseableNeverRaises ==
    /\ silver_ret.status = "raised" => silver_ret.exc = "FileNotFoundError"
    /\ SilverReturned =>
          /\ Len(silver.rows) = Len(bronze.rows)
          /\ \A i \in DOMAIN bronze.rows :
                \A c \in NumericColumns \cup DateColumns :
                    Unparseable(bronze.rows[i][c], c) => isna(silver.rows[i][c])

\* C7: every record whose amount or transaction timestamp is absent after
\* type normalization is written to the silver output with is_valid = false
\* and a non-empty quality_issues.
C7_AbsentFieldsInvalid ==
    silver.exists =>
        \A i \in DOMAIN silver.rows :
            (isna(silver.rows[i].amt) \/ isna(silver.rows[i].trans_date_trans_time))
                => /\ silver.rows[i].is_valid = Bool(FALSE)
                   /\ silver.rows[i].quality_issues # None

(***************************************************************************)
(* Properties of the gold stage.  gold_df is the silver dataset the last   *)
(* call read; the tables are compared with counts taken over the indices   *)
(* of its valid records.                                                   *)
(***************************************************************************)
GoldReturned == gold_ret.status = "returned"
GoldRanOnDataset == gold_ret.status # "none" /\ Len(gold_df) > 0

ValidIdx == {i \in DOMAIN gold_df : gold_df[i].is_valid = Bool(TRUE)}

RECURSIVE SumOver(_, _)
\* the sum of column c over the records with index in S
SumOver(S, c) ==
    IF S = {} THEN 0
    ELSE LET i == CHOOSE j \in S : TRUE
         IN (IF notna(gold_df[i][c]) THEN gold_df[i][c].v ELSE 0) + SumOver(S \ {i}, c)

CustomerMembers(r) ==
    {i \in ValidIdx : gold_df[i].cc_num = r.customer_id
                      /\ FullName(gold_df[i]) = r.full_name}
CategoryMembers(r) == {i \in ValidIdx : gold_df[i].category = r.category}

DistinctOver(S, c) ==
    Cardinality({gold_df[i][c] : i \in {j \in S : notna(gold_df[j][c])}})

\* C8: only silver records with is_valid = true contribute to the customer
\* summary and the category analysis: every count (of transaction ids), sum,
\* fraud_count and distinct count of a row is the one taken over the valid
\* records of its key, and valid_rows_used is the number of valid records.
C8_OnlyValidRecordsAggregated ==
    GoldReturned =>
        /\ gold_ret.metadata.valid_rows_used = Cardinality(ValidIdx)
        /\ \A g \in DOMAIN gold_customer.rows :
              LET r == gold_customer.rows[g]
                  M == CustomerMembers(r)
              IN /\ M # {}
                 /\ r.total_transactions
                        = Cardinality({i \in M : notna(gold_df[i].trans_num)})
                 /\ r.total_spend = Dec2(100 * SumOver(M, "amt"))
                 /\ r.fraud_count = SumOver(M, "is_fraud")
                 /\ r.unique_merchants = DistinctOver(M, "merchant")
        /\ \A g \in DOMAIN gold_category.rows :
              LET r == gold_category.rows[g]
                  M == CategoryMembers(r)
              IN /\ M # {}
                 /\ r.total_transactions
                        = Cardinality({i \in M : notna(gold_df[i].trans_num)})
                 /\ r.total_amount = Dec2(100 * SumOver(M, "amt"))
                 /\ r.fraud_count = SumOver(M, "is_fraud")
                 /\ r.unique_customers = DistinctOver(M, "cc_num")
                 /\ r.unique_merchants = DistinctOver(M, "merchant")

\* a valid and an invalid record of the same card and category were read
C8_Witness ==
    /\ GoldReturned
    /\ Len(gold_customer.rows) = 1
    /\ \E i, j \in DOMAIN gold_df :
          /\ gold_df[i].is_valid = Bool(TRUE)
          /\ gold_df[j].is_valid = Bool(FALSE)
          /\ gold_df[i].cc_num = gold_df[j].cc_num
          /\ gold_df[i].category = gold_df[j].category
          /\ notna(gold_df[j].amt)

C10_CustomerRowBounds ==
    gold_customer.exists =>
        \A g \in DOMAIN gold_customer.rows :
            LET r == gold_customer.rows[g]
            IN /\ r.total_transactions >= 1
               /\ r.fraud_count <= r.total_transactions
               /\ r.fraud_rate.k = "dec2"
               /\ 0 <= r.fraud_rate.v /\ r.fraud_rate.v <= 10000

FraudMembers(M) == {i \in M : gold_df[i].is_fraud = Num(1)}
TotalTransactions(rows) == SumSeq([g \in DOMAIN rows |-> rows[g].total_transactions])

\* C11: in every row of the customer summary, total_transactions is the
\* number of input (valid) records of the row's customer, total_spend the sum
\* of their amounts, fraud_count the number of them with fraud flag 1,
\* unique_merchants the number of their distinct merchants, and fraud_rate is
\* 100 * fraud_count / total_transactions rounded to 2 decimals.
C11_CustomerRowFigures ==
    GoldReturned =>
        \A g \in DOMAIN gold_customer.rows :
            LET r == gold_customer.rows[g]
                M == CustomerMembers(r)
            IN /\ r.total_transactions = Cardinality(M)
               /\ r.total_spend = Dec2(100 * SumOver(M, "amt"))
               /\ r.fraud_count = Cardinality(FraudMembers(M))
               /\ r.unique_merchants = DistinctOver(M, "merchant")
               /\ r.total_transactions > 0 =>
                      r.fraud_rate
                          = Dec2(Round2(100 * r.fraud_count, r.total_transactions))

\* C13: the category analysis has exactly one row for each category among
\* the input (valid) records and no other row; in each row
\* total_transactions is the number of input records of the category,
\* fraud_count the number of them with fraud flag 1, unique_customers and
\* unique_merchants the numbers of their distinct cards and merchants; the
\* total_transactions of all rows sum to the number of input records.
C13_CategoryRowFigures ==
    GoldReturned =>
        LET rows == gold_category.rows
            categories == {gold_df[i].category : i \in ValidIdx}
        IN /\ {rows[g].category : g \in DOMAIN rows} = categories
           /\ Len(rows) = Cardinality(categories)
           /\ \A g \in DOMAIN rows :
                 LET r == rows[g]
                     M == CategoryMembers(r)
                 IN /\ r.total_transactions = Cardinality(M)
                    /\ r.fraud_count = Cardinality(FraudMembers(M))
                    /\ r.unique_customers = DistinctOver(M, "cc_num")
                    /\ r.unique_merchants = DistinctOver(M, "merchant")
           /\ TotalTransactions(rows) = Cardinality(ValidIdx)

\* C17: the customer summary has exactly one row for each distinct card
\* identifier among the input (valid) records, and every input record is
\* counted in exactly one row: the total_transactions of all rows sum to the
\* number of input records, also when the records of a card carry different
\* or absent cardholder names.  Stated for inputs in which every record has
\* a transaction id, so that the count of ids is the count of records.
C17_OneRowPerCard ==
    (GoldReturned /\ \A i \in ValidIdx : notna(gold_df[i].trans_num)) =>
        LET rows == gold_customer.rows
            cards == {gold_df[i].cc_num : i \in ValidIdx}
        IN /\ \A card \in cards :
                 Cardinality({g \in DOMAIN rows : rows[g].customer_id = card}) = 1
           /\ Len(rows) = Cardinality(cards)
           /\ TotalTransactions(rows) = Cardinality(ValidIdx)

(***************************************************************************)
(* Properties of run_pipeline.                                             *)
(***************************************************************************)
IsPrefix(xs, ys) == Len(xs) <= Len(ys) /\ xs = SubSeq(ys, 1, Len(xs))
Begun(stage) == stage \in Range(stages_begun)

\* how the call of a stage that was begun ended (the bronze stage of the
\* model always returns)
StageStatus(stage) ==
    CASE stage = "bronze" -> "returned"
      [] stage = "silver" -> silver_ret.status
      [] stage = "gold" -> gold_ret.status
      [] stage = "insights" -> insights_ret.status

\* C14: run_pipeline calls the stages strictly in the order bronze, silver,
\* gold, insights; gold is begun only after silver has returned and written
\* its output, which is what gold reads; after a stage that raised no later
\* stage is begun; run_pipeline returns True only when all four stages have
\* returned and False otherwise.
C14_StagesInOrder ==
    /\ IsPrefix(stages_begun, StageOrder)
    /\ IsPrefix(stages_done, stages_begun)
    /\ Begun("gold") =>
          /\ silver_ret.status = "returned"
          /\ silver_ret.written = {SilverFile}
          /\ silver.exists
          /\ gold_df = silver.rows
    /\ \A i \in DOMAIN stages_begun :
          StageStatus(stages_begun[i]) = "raised" =>
              /\ i = Len(stages_begun)
              /\ pc \in {"except", "done"}
    /\ run_ret = "True" => stages_done = StageOrder
    /\ pc = "done" => (run_ret = "True" <=> stages_done = StageOrder)
    /\ pc = "done" => run_ret \in {"True", "False"}

\* the gold stage raised: the run began three stages, never the fourth, and
\* returned False
C14_Witness ==
    /\ stages_begun = <<"bronze", "silver", "gold">>
    /\ stages_done = <<"bronze", "silver">>
    /\ gold_ret.status = "raised"
    /\ insights_ret = NoRet /\ report = NoReport
    /\ run_ret = "False"

\* C15: no stage leaves partial output: once clean_and_validate or
\* create_analytical_tables has ended, by returning or by raising, the call
\* has written all of the stage's output tables or none of them; a call of
\* the gold stage never ends with the customer summary written and the
\* category analysis not written.
C15_NoPartialOutput ==
    /\ silver_ret.status # "none" => silver_ret.written \in {{}, {SilverFile}}
    /\ gold_ret.status # "none" =>
          gold_ret.written \in {{}, {CustomerFile, CategoryFile}}

(***************************************************************************)
(* Properties of repeated calls.                                           *)
(***************************************************************************)
ProcessingStamp == "_silver_processed_at"

\* two tables agree in every field but the processing timestamp
SameExceptStamp(a, b) ==
    /\ Len(a) = Len(b)
    /\ \A i \in DOMAIN a :
          /\ DOMAIN a[i] = DOMAIN b[i]
          /\ \A c \in DOMAIN a[i] \ {ProcessingStamp} : a[i][c] = b[i][c]

\* C16: a later run of clean_and_validate on the input of its first run
\* gives the same silver table in every field but the processing timestamp,
\* in particular the same is_valid and quality_issues for each record,
\* whatever the wall-clock times of the two runs; and a later run of
\* create_analytical_tables on the input of its first run gives the same two
\* gold tables.
C16_RerunSameOutput ==
    /\ (first_silver.done /\ silver_ret.status = "returned"
            /\ bronze.rows = first_silver.input)
          => SameExceptStamp(first_silver.output, silver.rows)
    /\ (first_gold.done /\ gold_ret.status = "returned"
            /\ gold_df = first_gold.input)
          => /\ gold_customer.rows = first_gold.customer_summary
             /\ gold_category.rows = first_gold.category_analysis

(***************************************************************************)
(* Properties of direct calls of the aggregators.                          *)
(***************************************************************************)
CategoryAnalysisReturned ==
    ares.status = "returned" /\ ares.fn = "create_merchant_category_analysis"

\* C12: the rows returned by create_merchant_category_analysis are in
\* descending order of total_transactions: row[i].total_transactions >=
\* row[i+1].total_transactions for every adjacent pair, for every input.
C12_SortedByVolume ==
    CategoryAnalysisReturned =>
        \A i \in DOMAIN ares.rows :
            i + 1 \in DOMAIN ares.rows =>
                ares.rows[i].total_transactions >= ares.rows[i + 1].total_transactions

\* every record has a transaction id, and the category that groupby puts
\* last has more records than the one it puts first: the sort reorders
C12_Witness ==
    /\ CategoryAnalysisReturned
    /\ \A i \in DOMAIN adf : notna(adf[i].trans_num)
    /\ Len(ares.rows) = 2
    /\ ares.rows[1].category = Str("c2") /\ ares.rows[1].total_transactions = 2
    /\ ares.rows[2].category = Str("c1") /\ ares.rows[2].total_transactions = 1

(***************************************************************************)
(* Properties of direct calls of validate_transaction.                     *)
(***************************************************************************)
Called == vres.exc # "none"
CallReturned == Called /\ ~vres.raised

(***************************************************************************)
(* The rule set of the record validator as the specification states it,    *)
(* over the kind of the input: a timestamp field denotes a time when it is *)
(* a naive timestamp or text that parses to one; it cannot be interpreted  *)
(* when it is text that does not parse, None, or a timezone-aware          *)
(* timestamp (which has no order against the naive clock).                 *)
(***************************************************************************)
RuleOrder ==
    <<"negative_amount", "missing_amount", "missing_merchant",
      "missing_category", "future_date", "invalid_date">>

DenotesTime(x) == x.k = "time" \/ (x.k = "str" /\ IsDateText(x.s))
TimeDenoted(x) == IF x.k = "time" THEN x.t ELSE DateLiterals[x.s]
Uninterpretable(x) ==
    \/ x.k = "str" /\ ~IsDateText(x.s)
    \/ x.k = "none"
    \/ x.k = "aware"

Violates(rule, row, clock) ==
    CASE rule = "negative_amount" -> row.amt.k = "num" /\ row.amt.v < 0
      [] rule = "missing_amount" -> row.amt.k \in {"nan", "none"}
      [] rule = "missing_merchant" -> row.merchant.k \in {"nan", "none"}
      [] rule = "missing_category" -> row.category.k \in {"nan", "none"}
      [] rule = "future_date" ->
            /\ DenotesTime(row.trans_date_trans_time)
            /\ TimeDenoted(row.trans_date_trans_time) > clock
      [] rule = "invalid_date" -> Uninterpretable(row.trans_date_trans_time)

ExpectedIssues(row, clock) ==
    SelectSeq(RuleOrder, LAMBDA rule : Violates(rule, row, clock))

\* C2: the issues list returned by validate_transaction holds exactly the
\* names of the rules the record violates, each once, in the fixed rule
\* order; no violation suppresses another (amount absent and merchant absent
\* give <<missing_amount, missing_merchant>>).
C2_IssuesExactInOrder ==
    CallReturned => vres.issues = ExpectedIssues(vrow, vnow)

C2_Witness ==
    /\ CallReturned
    /\ isna(vrow.amt) /\ isna(vrow.merchant)
    /\ vres.issues = <<"missing_amount", "missing_merchant">>

\* C4: for the timestamp field at most one of future_date and invalid_date is
\* reported: future_date exactly when the timestamp denotes a time strictly
\* after the clock read by the call, invalid_date exactly when it cannot be
\* parsed or interpreted, neither when it is at or before the clock.
C4_TimestampRule ==
    CallReturned =>
        LET ts == vrow.trans_date_trans_time
            future == "future_date" \in Range(vres.issues)
            invalid == "invalid_date" \in Range(vres.issues)
        IN /\ ~(future /\ invalid)
           /\ future <=> (DenotesTime(ts) /\ TimeDenoted(ts) > vnow)
           /\ invalid <=> Uninterpretable(ts)
           /\ (DenotesTime(ts) /\ TimeDenoted(ts) <= vnow) => (~future /\ ~invalid)

\* the boundary: a timestamp equal to the clock of the call is not in the future
C4_Witness ==
    /\ CallReturned
    /\ vrow.trans_date_trans_time = Time(1) /\ vnow = 1
    /\ "future_date" \notin Range(vres.issues)
    /\ "invalid_date" \notin Range(vres.issues)

\* C5: validate_transaction never raises, whatever the value or type of the
\* amount, merchant, category and timestamp fields.
C5_NeverRaises == Called => ~vres.raised
====
